---- MODULE Spec2Model ----
(***************************************************************************)
(* Model of the photo album backend: the index-photos handler (S3 upload   *)
(* events -> labels -> duplicate-safe write to the search index) and the   *)
(* search-photos handler (query text -> keywords -> index search).         *)
(*                                                                         *)
(* Strings the code inspects character by character (object keys, query    *)
(* text, document ids) are sequences of one-character strings.             *)
(***************************************************************************)
EXTENDS Integers, Sequences, FiniteSets, TLC

VARIABLES
    endpoint,       \* OPENSEARCH_ENDPOINT is set (index-photos.py:14)
    index,          \* the search index 'photos': a set of [id, doc] entries
    clock,          \* datetime.now(), as a counter
    pc,             \* where each invocation of lambda_handler is
    batch,          \* len(event['Records']) of the invocation
    records,        \* the records the for loop has not reached yet
    attempts,       \* calls of index_photo the invocation has made
    photo_document, \* handle_s3_indexing: photo_document of the current record
    content_hash,   \* index_photo: content_hash
    hash_read_ok,   \* get_photo_hash returned from its try branch
    check_response, \* index_photo: check_response.status_code
    heads,          \* requests.head calls of the current index_photo call
    puts,           \* requests.put calls of the current index_photo call
    returned,       \* index_photo: the last message printed and the value returned
    text,           \* the argument given to a text function
    applied,        \* the text function that has been applied ("" before)
    result,         \* what it returned
    search_endpoint, \* search-photos: OPENSEARCH_ENDPOINT is set
    lex_bot_id,     \* search-photos: LEX_BOT_ID is set
    api_event,      \* the API Gateway event given to lambda_handler
    spc,            \* where handle_api_search is
    user_query,     \* handle_api_search: user_query
    lex_response,   \* handle_api_search: lex_response
    keywords,       \* handle_api_search: keywords
    search_status,  \* how search_photos_in_opensearch ended ("" while not called)
    response        \* what handle_api_search returned

idxVars == <<endpoint, index, clock, pc, batch, records, attempts,
             photo_document, content_hash, hash_read_ok, check_response, heads, puts,
             returned>>

textVars == <<text, applied, result>>

searchVars == <<search_endpoint, lex_bot_id, api_event, spc, user_query, lex_response,
                keywords, search_status, response>>

queryVars == <<textVars, searchVars>>

vars == <<idxVars, queryVars>>

----------------------------------------------------------------------------
(* Bounds of the model *)

\* upload notifications delivered in all, over every invocation's event['Records']
MaxRecords == 2

\* the two Lambda invocations that may overlap
Invocations == {"first", "second"}

----------------------------------------------------------------------------
(* Strings *)

\* str.replace(old, new) for one-character old and new
Replace(s, old, new) == [i \in 1..Len(s) |-> IF s[i] = old THEN new ELSE s[i]]

\* urllib.parse.unquote_plus: '+' is a space, %XX is the character with that code
PercentCodes == <<"2", "F">> :> "/" @@ <<"2", "E">> :> "." @@ <<"2", "B">> :> "+"

RECURSIVE unquote_plus(_)
unquote_plus(s) ==
    IF s = <<>> THEN <<>>
    ELSE IF s[1] = "+" THEN <<" ">> \o unquote_plus(Tail(s))
    ELSE IF s[1] = "%" /\ Len(s) >= 3 /\ <<s[2], s[3]>> \in DOMAIN PercentCodes
         THEN <<PercentCodes[<<s[2], s[3]>>]>> \o unquote_plus(SubSeq(s, 4, Len(s)))
    ELSE <<s[1]>> \o unquote_plus(Tail(s))

----------------------------------------------------------------------------
(* The object store *)

Bucket == "photos-bucket"

\* object keys as the S3 event carries them (URL-encoded)
EventKeyA == <<"a", "%", "2", "F", "x", ".", "j">>
EventKeyB == <<"b", "+", "c", ".", "j">>
EventKeyD == <<"d", ".", "j">>
EventKeys == {EventKeyA, EventKeyB, EventKeyD}

KeyA == <<"a", "/", "x", ".", "j">>
KeyB == <<"b", " ", "c", ".", "j">>
KeyD == <<"d", ".", "j">>
ObjectKeys == {KeyA, KeyB, KeyD}

\* last byte offset of the Range header 'bytes=0-1023'
RangeEnd == 1023

\* The stored objects. A and B agree on bytes 0..1023 and differ at offset 1024;
\* D differs from A at offset 1023 only.
ObjectBody(key) ==
    IF key = KeyA THEN [i \in 1..1026 |-> IF i = 7 THEN 216 ELSE i % 251]
    ELSE IF key = KeyB THEN [i \in 1..1030 |-> IF i = 7 THEN 216
                                                ELSE IF i = 1025 THEN 9 ELSE i % 251]
    ELSE [i \in 1..1024 |-> IF i = 7 THEN 216 ELSE IF i = 1024 THEN 255 ELSE i % 251]

\* get_object without the Range argument: the whole body
RangeReadWholeBody(body, first, last) == body

\* s3_client.get_object(..., Range='bytes=first-last')['Body'].read()
RangeRead(body, first, last) ==
    SubSeq(body, first + 1, IF last + 1 < Len(body) THEN last + 1 ELSE Len(body))

----------------------------------------------------------------------------
(* get_photo_hash *)

HexDigits == <<"0", "1", "2", "3", "4", "5", "6", "7",
               "8", "9", "a", "b", "c", "d", "e", "f">>

\* hashlib.md5(content): a digest of all the bytes given and of nothing else.
\* MD5 itself is replaced by a small mixing function with a 16 bit state, fed
\* like MD5 in blocks of 64 bytes; the digest is still 32 hexadecimal characters.
RECURSIVE Absorb(_, _, _, _)
Absorb(content, i, last, h) ==
    IF i > last THEN h
    ELSE LET mixed == (h * 33 + content[i] + i) % 65521
         IN  IF mixed >= 0 THEN Absorb(content, i + 1, last, mixed) ELSE 0

RECURSIVE AbsorbBlocks(_, _, _)
AbsorbBlocks(content, first, h) ==
    IF first > Len(content) THEN h
    ELSE LET last == IF first + 63 < Len(content)
                     THEN first + 63 ELSE Len(content)
             state == Absorb(content, first, last, h)
         IN  IF state >= 0 THEN AbsorbBlocks(content, last + 1, state) ELSE 0

md5_hexdigest(content) ==
    LET h == AbsorbBlocks(content, 1, 5381 + Len(content))
    IN  [j \in 1..32 |->
            HexDigits[(((h * (j + 6) + j * j) \div (IF j % 3 = 0 THEN 1
                                                    ELSE IF j % 3 = 1 THEN 16
                                                    ELSE 256)) % 16) + 1]]

\* number of digest characters kept: hexdigest()[:12]
HashChars == 12

\* s[:n]
Prefix(s, n) == SubSeq(s, 1, IF n < Len(s) THEN n ELSE Len(s))

\* the try branch of get_photo_hash, for each stored object
SampledDigest ==
    [key \in ObjectKeys |->
        Prefix(md5_hexdigest(RangeRead(ObjectBody(key), 0, RangeEnd)), HashChars)]

\* get_photo_hash(bucket, key); readOk is whether get_object and read succeeded
get_photo_hash(key, readOk) ==
    IF readOk
    THEN SampledDigest[key]
    ELSE Replace(Replace(key, "/", "_"), ".", "_")

\* f"photo_{content_hash}"
document_id(hash) == <<"p", "h", "o", "t", "o", "_">> \o hash

----------------------------------------------------------------------------
(* Label detection and object metadata *)

\* str.strip(): leading and trailing whitespace removed
RECURSIVE StripSpaces(_)
StripSpaces(s) ==
    IF s = <<>> THEN <<>>
    ELSE IF s[1] = " " THEN StripSpaces(Tail(s))
    ELSE IF s[Len(s)] = " " THEN StripSpaces(SubSeq(s, 1, Len(s) - 1))
    ELSE s

\* str.split(sep): the pieces between separators, empty pieces kept
RECURSIVE SplitOn(_, _, _)
SplitOn(s, sep, piece) ==
    IF s = <<>> THEN <<piece>>
    ELSE IF s[1] = sep THEN <<piece>> \o SplitOn(Tail(s), sep, <<>>)
    ELSE SplitOn(Tail(s), sep, Append(piece, s[1]))

\* response['Labels'] names Rekognition gives for the object
RekognitionLabels(key) ==
    IF key = KeyA THEN << <<"C", "a", "t">> >> ELSE <<>>

\* Metadata 'customlabels' of the object ('' when it has none)
ObjectMetadata(key) ==
    IF key = KeyB THEN <<"P", "e", "t", ",", " ", "Z", "o", "o">> ELSE <<>>

\* detect_labels(bucket, key); ok is whether the Rekognition call succeeded
detect_labels(key, ok) == IF ok THEN RekognitionLabels(key) ELSE <<>>

\* get_custom_labels(bucket, key); ok is whether head_object succeeded
get_custom_labels(key, ok) ==
    IF ~ok THEN <<>>
    ELSE LET custom_labels_str == ObjectMetadata(key)
         IN  IF custom_labels_str # <<>>
             THEN LET pieces == SplitOn(custom_labels_str, ",", <<>>)
                  IN  [i \in 1..Len(pieces) |-> StripSpaces(pieces[i])]
             ELSE <<>>

----------------------------------------------------------------------------
(* The search index *)

\* the index holds an entry under this id
Exists(idx, id) == \E e \in idx : e.id = id

\* a write that adds an entry and leaves the one already under that id in place
IndexPutKeepingOld(idx, id, document) == idx \cup {[id |-> id, doc |-> document]}

\* PUT /photos/_doc/{id}: creates the entry, or replaces the one under that id
IndexPut(idx, id, document) ==
    {e \in idx : e.id # id} \cup {[id |-> id, doc |-> document]}

\* status codes (as text) requests.head can give for an id, "exception" when it raises
HeadResponses(idx, id) ==
    IF Exists(idx, id) THEN {"200", "503", "exception"} ELSE {"404", "503", "exception"}

----------------------------------------------------------------------------
(* handle_s3_indexing and index_photo *)

\* a record without the 's3' entry
Malformed == [bucket |-> "", key |-> <<"?">>]

Records == {[bucket |-> Bucket, key |-> k] : k \in EventKeys} \cup {Malformed}

RECURSIVE SeqsUpTo(_, _)
SeqsUpTo(S, n) ==
    IF n = 0 THEN {<<>>}
    ELSE LET shorter == SeqsUpTo(S, n - 1)
         IN  shorter \cup {Append(q, x) : q \in {r \in shorter : Len(r) = n - 1}, x \in S}

Events == SeqsUpTo(Records, MaxRecords)

RECURSIVE Delivered(_, _)
Delivered(lengths, who) ==
    IF who = {} THEN 0
    ELSE LET p == CHOOSE q \in who : TRUE
         IN  lengths[p] + Delivered(lengths, who \ {p})

NoDocument == [objectKey |-> <<>>, bucket |-> "", createdTimestamp |-> -1, labels |-> <<>>]

NotReturned == [msg |-> "", ret |-> ""]

\* index_photo returns ret after printing msg; the handler prints and goes on
Return(p, msg, ret) ==
    /\ returned' = [returned EXCEPT ![p] = [msg |-> msg, ret |-> ret]]
    /\ pc' = [pc EXCEPT ![p] = "returned"]

\* no invocation of the indexer has started
IndexerIdle ==
    /\ index = {}
    /\ clock = 0
    /\ pc = [p \in Invocations |-> "idle"]
    /\ batch = [p \in Invocations |-> 0]
    /\ records = [p \in Invocations |-> <<>>]
    /\ attempts = [p \in Invocations |-> 0]
    /\ photo_document = [p \in Invocations |-> NoDocument]
    /\ content_hash = [p \in Invocations |-> <<>>]
    /\ hash_read_ok = [p \in Invocations |-> FALSE]
    /\ check_response = [p \in Invocations |-> ""]
    /\ heads = [p \in Invocations |-> 0]
    /\ puts = [p \in Invocations |-> 0]
    /\ returned = [p \in Invocations |-> NotReturned]

\* no text function is being applied
TextIdle ==
    /\ text = <<>>
    /\ applied = ""
    /\ result = <<>>

Null == [t |-> "null"]

NoResponse == [statusCode |-> 0, body |-> [error |-> ""]]

\* no search request is being handled
SearchIdle ==
    /\ search_endpoint = TRUE
    /\ lex_bot_id = TRUE
    /\ api_event = Null
    /\ spc = "idle"
    /\ user_query = <<>>
    /\ lex_response = Null
    /\ keywords = <<>>
    /\ search_status = ""
    /\ response = NoResponse

Init ==
    /\ endpoint \in BOOLEAN
    /\ IndexerIdle
    /\ TextIdle
    /\ SearchIdle

\* lambda_handler is invoked with an S3 event
Invoke(p) ==
    /\ UNCHANGED queryVars
    /\ pc[p] = "idle"
    /\ \E e \in Events :
          /\ Len(e) + Delivered(batch, Invocations) <= MaxRecords
          /\ records' = [records EXCEPT ![p] = e]
          /\ batch' = [batch EXCEPT ![p] = Len(e)]
    /\ pc' = [pc EXCEPT ![p] = "record"]
    /\ UNCHANGED <<endpoint, index, clock, attempts, photo_document,
                   content_hash, hash_read_ok, check_response, heads, puts, returned>>

\* the for loop is exhausted: return statusCode 200
ReturnSuccess(p) ==
    /\ UNCHANGED queryVars
    /\ pc[p] = "record"
    /\ records[p] = <<>>
    /\ pc' = [pc EXCEPT ![p] = "done"]
    /\ UNCHANGED <<endpoint, index, clock, batch, records, attempts,
                   photo_document, content_hash, hash_read_ok, check_response, heads,
                   puts, returned>>

\* record['s3'] raises KeyError: the except clause prints and re-raises
RaiseOnRecord(p) ==
    /\ UNCHANGED queryVars
    /\ pc[p] = "record"
    /\ records[p] # <<>>
    /\ records[p][1] = Malformed
    /\ pc' = [pc EXCEPT ![p] = "raised"]
    /\ UNCHANGED <<endpoint, index, clock, batch, records, attempts,
                   photo_document, content_hash, hash_read_ok, check_response, heads,
                   puts, returned>>

\* steps 1 to 4 of the loop body: labels, custom labels, photo_document
NewDocument(p, rekognitionOk, headObjectOk) ==
    LET bucket == records[p][1].bucket
        key == unquote_plus(records[p][1].key)
        labels == detect_labels(key, rekognitionOk)
        custom_labels == get_custom_labels(key, headObjectOk)
        all_labels == labels \o custom_labels
    IN  [objectKey |-> key, bucket |-> bucket, createdTimestamp |-> clock,
         labels |-> all_labels]

\* a well-formed record is next: steps 1 to 4 build its photo_document
BuildDocument(p) ==
    /\ pc[p] = "record"
    /\ records[p] # <<>>
    /\ records[p][1] # Malformed
    /\ \E rekognitionOk \in BOOLEAN, headObjectOk \in BOOLEAN :
          photo_document' = [photo_document EXCEPT ![p] =
                                NewDocument(p, rekognitionOk, headObjectOk)]
    /\ clock' = clock + 1

\* step 5 with no endpoint configured: index_photo is not called
SkipIndex(p) ==
    /\ UNCHANGED queryVars
    /\ BuildDocument(p)
    /\ ~endpoint
    /\ Return(p, "not_configured", "NotCalled")
    /\ UNCHANGED <<endpoint, index, batch, records, attempts,
                   content_hash, hash_read_ok, check_response, heads, puts>>

\* index_photo without its try/except: the exception reaches the handler's raise
CredentialsFailPropagates(p) ==
    /\ UNCHANGED queryVars
    /\ BuildDocument(p)
    /\ endpoint
    /\ attempts' = [attempts EXCEPT ![p] = @ + 1]
    /\ pc' = [pc EXCEPT ![p] = "raised"]
    /\ UNCHANGED <<endpoint, index, batch, records, content_hash, hash_read_ok,
                   check_response, heads, puts, returned>>

\* step 5, index_photo: getting the credentials or building AWS4Auth raises
CredentialsFail(p) ==
    /\ UNCHANGED queryVars
    /\ BuildDocument(p)
    /\ endpoint
    /\ attempts' = [attempts EXCEPT ![p] = @ + 1]
    /\ Return(p, "error", "False")
    /\ UNCHANGED <<endpoint, index, batch, records,
                   content_hash, hash_read_ok, check_response, heads, puts>>

\* step 5, index_photo up to the existence check: content_hash and document_id
ComputeIdentity(p) ==
    /\ UNCHANGED queryVars
    /\ BuildDocument(p)
    /\ endpoint
    /\ attempts' = [attempts EXCEPT ![p] = @ + 1]
    /\ \E readOk \in BOOLEAN :
          /\ content_hash' = [content_hash EXCEPT ![p] =
                                 get_photo_hash(photo_document'[p].objectKey, readOk)]
          /\ hash_read_ok' = [hash_read_ok EXCEPT ![p] = readOk]
    /\ pc' = [pc EXCEPT ![p] = "head"]
    /\ UNCHANGED <<endpoint, index, batch, records,
                   check_response, heads, puts, returned>>

\* an existence check that is sent again when it raises
ExistenceCheckRetrying(p) ==
    /\ UNCHANGED queryVars
    /\ pc[p] = "head"
    /\ heads' = [heads EXCEPT ![p] = @ + 1]
    /\ \E status \in HeadResponses(index, document_id(content_hash[p])) :
          /\ check_response' = [check_response EXCEPT ![p] = status]
          /\ IF status = "exception"
             THEN IF heads[p] = 0 THEN UNCHANGED <<pc, returned>>
                                 ELSE Return(p, "error", "False")
             ELSE IF status = "200" THEN Return(p, "duplicate", "False")
             ELSE /\ pc' = [pc EXCEPT ![p] = "put"]
                  /\ UNCHANGED returned
    /\ UNCHANGED <<endpoint, index, clock, batch, records, attempts,
                   photo_document, content_hash, hash_read_ok, puts>>

\* requests.head(check_url) and the branch on its status code
ExistenceCheck(p) ==
    /\ UNCHANGED queryVars
    /\ pc[p] = "head"
    /\ heads' = [heads EXCEPT ![p] = @ + 1]
    /\ \E status \in HeadResponses(index, document_id(content_hash[p])) :
          /\ check_response' = [check_response EXCEPT ![p] = status]
          /\ IF status = "exception" THEN Return(p, "error", "False")
             ELSE IF status = "200" THEN Return(p, "duplicate", "False")
             ELSE /\ pc' = [pc EXCEPT ![p] = "put"]
                  /\ UNCHANGED returned
    /\ UNCHANGED <<endpoint, index, clock, batch, records, attempts,
                   photo_document, content_hash, hash_read_ok, puts>>

\* requests.put(url, json=photo_document) and the branch on its status code
Put(p) ==
    /\ UNCHANGED queryVars
    /\ pc[p] = "put"
    /\ puts' = [puts EXCEPT ![p] = @ + 1]
    /\ LET id == document_id(content_hash[p])
           written == index' = IndexPut(index, id, photo_document[p])
       IN  \/ /\ written     \* 200 or 201
              /\ Return(p, "indexed", "True")
           \/ /\ UNCHANGED index     \* any other status
              /\ Return(p, "failed", "False")
           \/ /\ written \/ UNCHANGED index   \* the request raises
              /\ Return(p, "error", "False")
    /\ UNCHANGED <<endpoint, clock, batch, records, attempts, photo_document,
                   content_hash, hash_read_ok, check_response, heads>>

\* the handler's print after step 5, and the loop moves to the next record
NextRecord(p) ==
    /\ UNCHANGED queryVars
    /\ pc[p] = "returned"
    /\ records' = [records EXCEPT ![p] = Tail(@)]
    /\ photo_document' = [photo_document EXCEPT ![p] = NoDocument]
    /\ content_hash' = [content_hash EXCEPT ![p] = <<>>]
    /\ hash_read_ok' = [hash_read_ok EXCEPT ![p] = FALSE]
    /\ check_response' = [check_response EXCEPT ![p] = ""]
    /\ heads' = [heads EXCEPT ![p] = 0]
    /\ puts' = [puts EXCEPT ![p] = 0]
    /\ returned' = [returned EXCEPT ![p] = NotReturned]
    /\ pc' = [pc EXCEPT ![p] = "record"]
    /\ UNCHANGED <<endpoint, index, clock, batch, attempts>>

Step(p) ==
    \/ Invoke(p)
    \/ ReturnSuccess(p)
    \/ RaiseOnRecord(p)
    \/ SkipIndex(p)
    \/ CredentialsFail(p)
    \/ ComputeIdentity(p)
    \/ ExistenceCheck(p)
    \/ Put(p)
    \/ NextRecord(p)

Next == \E p \in Invocations : Step(p)

Spec == Init /\ [][Next]_vars

\* invocations one after another: a step is taken only while no other invocation
\* is between its start and its end
Resting(p) == pc[p] \in {"idle", "done", "raised"}

NextSeq == \E p \in Invocations : (\A q \in Invocations \ {p} : Resting(q)) /\ Step(p)

SpecSeq == Init /\ [][NextSeq]_vars

----------------------------------------------------------------------------
(* Properties of the indexer *)

\* index_photo has been called for the current record and holds a document id
Identified(p) == pc[p] \in {"head", "put", "returned"} /\ content_hash[p] # <<>>

CurrentId(p) == document_id(content_hash[p])

EntriesUnder(idx, id) == {e \in idx : e.id = id}

\* C1: an existence check made while the index holds an entry under the document
\* id is never followed by a PUT: index_photo returns False (its duplicate
\* result) straight from the check, whatever the check answered.
C1_NoWriteOverExistingEntry ==
    [][\A p \in Invocations :
          (pc[p] = "head" /\ Exists(index, CurrentId(p)) /\ pc'[p] # "head")
              => (pc'[p] = "returned" /\ returned'[p].ret = "False" /\ index' = index)]_vars

\* C2: with invocations one after another, an entry once in the index is never
\* replaced or removed by a later invocation (the index stays what the first
\* successful invocation made it, for every identity it holds).
C2_RetriesLeaveIndexUnchanged ==
    [][\A e \in index : e \in index']_vars

\* C3 as stated: a call of index_photo that has returned made exactly one HEAD
\* request and at most one PUT request.
C3_ExactlyOneCheck ==
    \A p \in Invocations :
        (pc[p] = "returned" /\ returned[p].ret # "NotCalled")
            => (heads[p] = 1 /\ puts[p] <= 1)

\* C3 amended: a call of index_photo never makes more than one HEAD and one PUT
\* request, makes a PUT only after its HEAD, and has made exactly one HEAD when it
\* returns unless it failed before computing the document id (credentials).
C3_AtMostOneCheckAndWrite ==
    \A p \in Invocations :
        /\ heads[p] <= 1
        /\ puts[p] <= 1
        /\ puts[p] = 1 => heads[p] = 1
        /\ pc[p] = "put" => heads[p] = 1
        /\ (pc[p] = "returned" /\ returned[p].ret # "NotCalled")
              => heads[p] = (IF content_hash[p] = <<>> THEN 0 ELSE 1)

C3_CheckedAndWrote ==
    \E p \in Invocations : pc[p] = "returned" /\ heads[p] = 1 /\ puts[p] = 1

\* number of leading bytes of an object the fingerprint is said to depend on
SampleBytes == 1024

SameSample ==
    [k1 \in ObjectKeys, k2 \in ObjectKeys |->
        Prefix(ObjectBody(k1), SampleBytes) = Prefix(ObjectBody(k2), SampleBytes)]

\* C4: when the content read succeeded the document id is "photo_" followed by
\* 12 digest characters, and two objects whose first 1024 bytes are equal get
\* the same document id, whatever their keys and their later bytes.
C4_IdentityFromFirstKilobyte ==
    \A p \in Invocations, q \in Invocations :
        (Identified(p) /\ hash_read_ok[p])
            => /\ Prefix(CurrentId(p), 6) = <<"p", "h", "o", "t", "o", "_">>
               /\ Len(CurrentId(p)) = 6 + HashChars
               /\ (Identified(q) /\ hash_read_ok[q]
                   /\ SameSample[photo_document[p].objectKey, photo_document[q].objectKey])
                      => CurrentId(p) = CurrentId(q)

C4_TwoKeysOneIdentity ==
    \E p \in Invocations, q \in Invocations :
        /\ Identified(p) /\ hash_read_ok[p]
        /\ Identified(q) /\ hash_read_ok[q]
        /\ photo_document[p].objectKey = KeyA
        /\ photo_document[q].objectKey = KeyB
        /\ ObjectBody(KeyA) # ObjectBody(KeyB)
        /\ CurrentId(p) = CurrentId(q)

\* C9: every write the index applies leaves exactly one entry under the written
\* id, holding the writer's document, and changes no other entry: of two writes
\* under one id the later one decides the entry (last writer wins).
C9_LastWriterWins ==
    [][\A p \in Invocations :
          (pc[p] = "put" /\ pc'[p] # "put" /\ (returned'[p].msg = "indexed" \/ index' # index))
              => /\ EntriesUnder(index', CurrentId(p)) =
                        {[id |-> CurrentId(p), doc |-> photo_document[p]]}
                 /\ \A e \in index : e.id # CurrentId(p) => e \in index'
                 /\ \A e \in index' : e.id # CurrentId(p) => e \in index]_vars

\* both invocations saw the id absent, both wrote, one entry is left
C9_BothSawAbsentBothWrote ==
    \E p \in Invocations, q \in Invocations :
        /\ p # q
        /\ pc[p] = "returned" /\ pc[q] = "returned"
        /\ returned[p].msg = "indexed" /\ returned[q].msg = "indexed"
        /\ check_response[p] = "404" /\ check_response[q] = "404"
        /\ hash_read_ok[p] /\ hash_read_ok[q]
        /\ CurrentId(p) = CurrentId(q)
        /\ photo_document[p].createdTimestamp < photo_document[q].createdTimestamp
        /\ EntriesUnder(index, CurrentId(p)) =
              {[id |-> CurrentId(p), doc |-> photo_document[p]]}

\* C10: a batch is aborted only by a record that cannot be parsed; failures of
\* label detection, metadata read, fingerprint read and index check or write
\* leave the loop running: a finished batch has consumed every record, made one
\* index_photo call per record when the endpoint is configured, and a failed
\* fingerprint read gives the key with '/' and '.' replaced by '_' as identity.
C10_FailuresNeverAbortBatch ==
    \A p \in Invocations :
        /\ pc[p] = "raised" => (records[p] # <<>> /\ records[p][1] = Malformed)
        /\ pc[p] = "done"
              => /\ records[p] = <<>>
                 /\ attempts[p] = (IF endpoint THEN batch[p] ELSE 0)
        /\ (Identified(p) /\ ~hash_read_ok[p])
              => LET key == photo_document[p].objectKey
                 IN  /\ Len(content_hash[p]) = Len(key)
                     /\ \A i \in 1..Len(key) :
                           content_hash[p][i] = (IF key[i] \in {"/", "."} THEN "_" ELSE key[i])

\* a batch of two finished although the first record's write did not happen and
\* the second record lost its labels and its fingerprint
C10_DegradedBatchCompleted ==
    \E p \in Invocations :
        /\ pc[p] = "done" /\ batch[p] = 2 /\ attempts[p] = 2
        /\ \A q \in Invocations \ {p} : pc[q] = "idle"
        /\ index = {[id |-> document_id(<<"b", " ", "c", "_", "j">>),
                     doc |-> [objectKey |-> KeyB, bucket |-> Bucket,
                              createdTimestamp |-> 1, labels |-> <<>>]]}

\* the outcome of an index_photo call that reached the index: what its
\* branch of lines 244-275 is
Outcome(p) ==
    IF returned[p].msg = "indexed" THEN "inserted"
    ELSE IF returned[p].msg = "duplicate" THEN "duplicate"
    ELSE "failed"

\* index_photo has returned to handle_s3_indexing after calling the index
ReachedIndex(p) == pc[p] = "returned" /\ heads[p] >= 1

\* C11: the value index_photo returns tells the three outcomes apart: two
\* calls that ended in different outcomes (inserted, duplicate, failed
\* existence check or write) never hand the same value to their callers.
C11_OutcomesDistinguishable ==
    \A p, q \in Invocations :
        (ReachedIndex(p) /\ ReachedIndex(q) /\ Outcome(p) # Outcome(q))
            => returned[p].ret # returned[q].ret

----------------------------------------------------------------------------
(* search-photos: keyword extraction *)

STOP_WORDS ==
    {<<"t", "h", "e">>,
     <<"a">>,
     <<"a", "n">>,
     <<"a", "n", "d">>,
     <<"o", "r">>,
     <<"b", "u", "t">>,
     <<"i", "n">>,
     <<"o", "n">>,
     <<"a", "t">>,
     <<"t", "o">>,
     <<"f", "o", "r">>,
     <<"o", "f">>,
     <<"w", "i", "t", "h">>,
     <<"b", "y">>,
     <<"s", "h", "o", "w">>,
     <<"m", "e">>,
     <<"f", "i", "n", "d">>,
     <<"s", "e", "a", "r", "c", "h">>,
     <<"p", "h", "o", "t", "o", "s">>,
     <<"p", "i", "c", "t", "u", "r", "e", "s">>,
     <<"i", "m", "a", "g", "e", "s">>}

UpperCase == <<"A", "B", "C", "D", "E", "F", "G", "H", "I", "J", "K", "L", "M", "N", "O", "P", "Q", "R", "S", "T", "U", "V", "W", "X", "Y", "Z">>
LowerCase == <<"a", "b", "c", "d", "e", "f", "g", "h", "i", "j", "k", "l", "m", "n", "o", "p", "q", "r", "s", "t", "u", "v", "w", "x", "y", "z">>

\* str.lower()
Lower(s) ==
    [i \in 1..Len(s) |->
        IF \E k \in 1..26 : UpperCase[k] = s[i]
        THEN LowerCase[CHOOSE k \in 1..26 : UpperCase[k] = s[i]]
        ELSE s[i]]

Whitespace == {" ", "\t", "\n"}

\* str.split(): the maximal runs of non-whitespace characters
RECURSIVE SplitWords(_, _)
SplitWords(s, piece) ==
    IF s = <<>> THEN (IF piece = <<>> THEN <<>> ELSE <<piece>>)
    ELSE IF s[1] \in Whitespace
         THEN (IF piece = <<>> THEN <<>> ELSE <<piece>>) \o SplitWords(Tail(s), <<>>)
    ELSE SplitWords(Tail(s), Append(piece, s[1]))

\* str.strip(chars): leading and trailing characters of the set removed
RECURSIVE StripChars(_, _)
StripChars(s, chars) ==
    IF s = <<>> THEN <<>>
    ELSE IF s[1] \in chars THEN StripChars(Tail(s), chars)
    ELSE IF s[Len(s)] \in chars THEN StripChars(SubSeq(s, 1, Len(s) - 1), chars)
    ELSE s

\* str.endswith(suffix)
EndsWith(s, suffix) ==
    /\ Len(suffix) <= Len(s)
    /\ SubSeq(s, Len(s) - Len(suffix) + 1, Len(s)) = suffix

\* s[:-n]
DropLast(s, n) == SubSeq(s, 1, IF Len(s) > n THEN Len(s) - n ELSE 0)

EsPlurals == {<<"c", "h", "e", "s">>, <<"s", "h", "e", "s">>, <<"x", "e", "s">>, <<"z", "e", "s">>, <<"s", "s", "e", "s">>}

\* normalize_plural(word)
normalize_plural(word) ==
    IF Len(word) <= 3 THEN word
    ELSE IF EndsWith(word, <<"i", "e", "s">>) /\ Len(word) > 4
         THEN DropLast(word, 3) \o <<"y">>
    ELSE IF EndsWith(word, <<"e", "s">>) /\ Len(word) > 3
         THEN IF \E suffix \in EsPlurals : EndsWith(word, suffix)
              THEN DropLast(word, 2)
              ELSE word
    ELSE IF EndsWith(word, <<"s">>) /\ Len(word) > 3
         THEN DropLast(word, 1)
    ELSE word

\* [f(x) for x in xs if keep(x)] helpers
RECURSIVE KeptWords(_)
KeptWords(words) ==
    IF words = <<>> THEN <<>>
    ELSE IF words[1] \notin STOP_WORDS /\ Len(words[1]) > 2
         THEN <<StripChars(words[1], {".", ",", "!", "?"})>> \o KeptWords(Tail(words))
    ELSE KeptWords(Tail(words))

\* extract_keywords_from_text(text)
extract_keywords_from_text(t) ==
    LET words == SplitWords(Lower(t), <<>>)
        kept == KeptWords(words)
    IN  [i \in 1..Len(kept) |-> normalize_plural(kept[i])]

\* most words in a text given to the text functions
MaxWords == 2

QueryTokens ==
    {<<>>,
     <<"t", "h", "e">>,
     <<"T", "h", "e", ".">>,
     <<"m", "e">>,
     <<"p", "h", "o", "t", "o", "s">>,
     <<"p", "h", "o", "t", "o", "s", "s">>,
     <<"a", "b", ",">>,
     <<".", ".", ".">>,
     <<"D", "O", "G", "S">>,
     <<"p", "u", "p", "p", "i", "e", "s">>,
     <<"b", "e", "a", "c", "h", "e", "s">>,
     <<"a", "p", "p", "l", "e", "s">>,
     <<"t", "i", "e", "s">>,
     <<"b", "u", "s">>,
     <<"g", "l", "a", "s", "s">>,
     <<"b", "o", "x", "e", "s", "!">>,
     <<"?", "c", "a", "t">>,
     <<"s", "k", "y">>}

\* the tokens joined by single spaces (an empty token leaves a doubled space)
RECURSIVE JoinWords(_)
JoinWords(tokens) ==
    IF tokens = <<>> THEN <<>>
    ELSE IF Len(tokens) = 1 THEN tokens[1]
    ELSE tokens[1] \o <<" ">> \o JoinWords(Tail(tokens))

Texts == {JoinWords(tokens) : tokens \in SeqsUpTo(QueryTokens, MaxWords)}

\* a single lowercase word, as normalize_plural's callers pass it
IsLowerWord(t) ==
    /\ t # <<>>
    /\ Lower(t) = t
    /\ \A i \in 1..Len(t) : t[i] \notin Whitespace

InitText ==
    /\ text \in Texts
    /\ applied = ""
    /\ result = <<>>
    /\ endpoint = TRUE
    /\ IndexerIdle
    /\ SearchIdle

\* extract_keywords_from_text is applied to the text
ExtractKeywords ==
    /\ applied = ""
    /\ result' = extract_keywords_from_text(text)
    /\ applied' = "extract_keywords_from_text"
    /\ UNCHANGED <<text, idxVars, searchVars>>

\* normalize_plural is applied to the text, a single lowercase word
NormalizePlural ==
    /\ applied = ""
    /\ IsLowerWord(text)
    /\ result' = <<normalize_plural(text)>>
    /\ applied' = "normalize_plural"
    /\ UNCHANGED <<text, idxVars, searchVars>>

NextText == ExtractKeywords \/ NormalizePlural

SpecText == InitText /\ [][NextText]_vars

\* C5: no token extract_keywords_from_text returns is a stop word, and none has
\* length 2 or less.
C5_NoStopWordNoShortToken ==
    applied = "extract_keywords_from_text"
        => \A i \in 1..Len(result) : result[i] \notin STOP_WORDS /\ Len(result[i]) > 2

\* the rule list of the specification, in its order
SpecifiedPlural(word) ==
    IF Len(word) <= 3 THEN word
    ELSE IF EndsWith(word, <<"i", "e", "s">>) /\ Len(word) > 4
         THEN DropLast(word, 3) \o <<"y">>
    ELSE IF EndsWith(word, <<"e", "s">>) /\ Len(word) > 3
            /\ \E suffix \in EsPlurals : EndsWith(word, suffix)
         THEN DropLast(word, 2)
    ELSE IF EndsWith(word, <<"s">>) /\ Len(word) > 3
         THEN DropLast(word, 1)
    ELSE word

\* C8: normalize_plural returns, for every lowercase word, what the ordered rule
\* list of the specification returns.
C8_PluralRuleList ==
    applied = "normalize_plural" => result[1] = SpecifiedPlural(text)

----------------------------------------------------------------------------
(* search-photos: handle_api_search *)

\* JSON values: Null, Str(characters), Obj(<<key, value>> pairs in order)
Str(chars) == [t |-> "str", v |-> chars]
Obj(pairs) == [t |-> "obj", v |-> pairs]

\* key in obj
Has(obj, key) == obj.t = "obj" /\ \E i \in 1..Len(obj.v) : obj.v[i][1] = key

\* obj[key]
Get(obj, key) == obj.v[CHOOSE i \in 1..Len(obj.v) : obj.v[i][1] = key][2]

\* bool(value)
Truthy(value) == value.t # "null" /\ value.v # <<>>

Slot(interpreted) == Obj(<< <<"value", Obj(<< <<"interpretedValue", interpreted>> >>)>> >>)

LexAnswer(intent) == Obj(<< <<"sessionState", Obj(<< <<"intent", intent>> >>)>> >>)

\* responses recognize_text can give
LexResponses ==
    << Obj(<< <<"messages", Null>> >>),
       Obj(<< <<"sessionState", Obj(<< <<"dialogAction", Null>> >>)>> >>),
       LexAnswer(Obj(<< <<"name", Str(<<"F", "a", "l", "l", "b", "a", "c", "k", "I", "n", "t", "e", "n", "t">>)>> >>)),
       LexAnswer(Obj(<< <<"slots", Null>> >>)),
       LexAnswer(Obj(<< <<"slots", Obj(<<>>)>> >>)),
       LexAnswer(Obj(<< <<"slots", Obj(<< <<"animal", Null>> >>)>> >>)),
       LexAnswer(Obj(<< <<"slots", Obj(<< <<"animal", Slot(Str(<<"D", "o", "g", "s">>))>>,
                                          <<"color", Slot(Str(<<>>))>> >>)>> >>)),
       LexAnswer(Obj(<< <<"slots", Obj(<< <<"animal", Slot(Str(<<"t", "h", "e">>))>> >>)>> >>)),
       LexAnswer(Obj(<< <<"slots", Obj(<< <<"animal", Slot(Str(<<"D", "o", "g", "s">>))>>,
                                          <<"color", Obj(<< <<"value", Null>> >>)>> >>)>> >>)) >>

\* extract_keywords_from_slots(slots): the keywords, or raised when a lookup fails
RECURSIVE SlotKeywords(_, _)
SlotKeywords(pairs, found) ==
    IF pairs = <<>> THEN [raised |-> FALSE, keywords |-> found]
    ELSE LET slot_value == pairs[1][2]
         IN  IF Truthy(slot_value) /\ Has(slot_value, "value")
             THEN IF Get(slot_value, "value").t # "obj"
                  THEN [raised |-> TRUE, keywords |-> <<>>]
                  ELSE LET interpreted_value ==
                               IF Has(Get(slot_value, "value"), "interpretedValue")
                               THEN Get(Get(slot_value, "value"), "interpretedValue")
                               ELSE Str(<<>>)
                       IN  IF Truthy(interpreted_value)
                           THEN SlotKeywords(Tail(pairs),
                                    found \o extract_keywords_from_text(interpreted_value.v))
                           ELSE SlotKeywords(Tail(pairs), found)
             ELSE SlotKeywords(Tail(pairs), found)

extract_keywords_from_slots(slots) ==
    IF slots.t # "obj" THEN [raised |-> TRUE, keywords |-> <<>>]
    ELSE SlotKeywords(slots.v, <<>>)

\* extract_keywords_from_lex_response(lex_response)
extract_keywords_from_lex_response(lex) ==
    IF Has(lex, "sessionState") /\ Has(Get(lex, "sessionState"), "intent")
    THEN LET intent == Get(Get(lex, "sessionState"), "intent")
             slots == IF Has(intent, "slots") THEN Get(intent, "slots") ELSE Obj(<<>>)
             got == extract_keywords_from_slots(slots)
         IN  IF got.raised THEN <<>> ELSE got.keywords
    ELSE <<>>

QueryTexts ==
    {<<>>,
     <<" ", " ">>,
     <<"d", "o", "g", "s">>,
     <<" ", "T", "h", "e", ".", " ">>,
     <<"s", "h", "o", "w", " ", "m", "e", " ", "p", "i", "c", "t", "u", "r", "e", "s", " ", "o", "f", " ", "p", "u", "p", "p", "i", "e", "s", " ", "a", "n", "d", " ", "b", "e", "a", "c", "h", "e", "s">>}

\* the events API Gateway can deliver
ApiEvents ==
    {Obj(<<>>), Obj(<< <<"queryStringParameters", Null>> >>)}
    \cup {Obj(<< <<"queryStringParameters", Obj(<< <<"q", Str(q)>> >>)>> >>) : q \in QueryTexts}

\* event.get('queryStringParameters') or {} ... .get('q', '').strip()
QueryOf(event) ==
    LET query_params == IF Has(event, "queryStringParameters")
                           /\ Truthy(Get(event, "queryStringParameters"))
                        THEN Get(event, "queryStringParameters") ELSE Obj(<<>>)
    IN  IF Has(query_params, "q") THEN StripSpaces(Get(query_params, "q").v) ELSE <<>>

AWS_REGION == "us-east-1"

\* the stored documents a search can hit
HitSources ==
    << [objectKey |-> KeyA, bucket |-> Bucket, labels |-> << <<"D", "o", "g">> >>],
       [objectKey |-> KeyD, bucket |-> Bucket, labels |-> <<>>] >>

\* hits the index can answer with
MaxHits == 2

HitLists == {SubSeq(HitSources, 1, n) : n \in 0..(IF MaxHits < Len(HitSources) THEN MaxHits ELSE Len(HitSources))}

\* the result list built from the hits
ResultsOf(hits) ==
    [i \in 1..Len(hits) |->
        [url |-> <<"https://", hits[i].bucket, ".s3.", AWS_REGION, ".amazonaws.com/",
                   hits[i].objectKey>>,
         labels |-> hits[i].labels]]

InitSearch ==
    /\ search_endpoint \in BOOLEAN
    /\ lex_bot_id \in BOOLEAN
    /\ api_event \in ApiEvents
    /\ spc = "start"
    /\ user_query = <<>>
    /\ lex_response = Null
    /\ keywords = <<>>
    /\ search_status = ""
    /\ response = NoResponse
    /\ endpoint = TRUE
    /\ IndexerIdle
    /\ TextIdle

\* no q: the 400 answer
RejectMissingQuery ==
    /\ spc = "start"
    /\ QueryOf(api_event) = <<>>
    /\ response' = [statusCode |-> 400, body |-> [error |-> "Query parameter q is required"]]
    /\ spc' = "done"
    /\ UNCHANGED <<search_endpoint, lex_bot_id, api_event, user_query, lex_response,
                   keywords, search_status, idxVars, textVars>>

\* keywords from what query_lex_bot returned, or from the query when it returned nothing
ResolveKeywords(query, lex) ==
    IF ~Truthy(lex) THEN extract_keywords_from_text(query)
    ELSE extract_keywords_from_lex_response(lex)

\* query_lex_bot returns None: no bot id, or recognize_text raises
LexUnavailable ==
    /\ spc = "start"
    /\ QueryOf(api_event) # <<>>
    /\ user_query' = QueryOf(api_event)
    /\ lex_response' = Null
    /\ keywords' = ResolveKeywords(QueryOf(api_event), Null)
    /\ spc' = "resolved"
    /\ UNCHANGED <<search_endpoint, lex_bot_id, api_event, search_status, response,
                   idxVars, textVars>>

\* query_lex_bot returns the response of recognize_text
LexAnswers ==
    /\ spc = "start"
    /\ QueryOf(api_event) # <<>>
    /\ lex_bot_id
    /\ user_query' = QueryOf(api_event)
    /\ \E i \in 1..Len(LexResponses) :
          /\ lex_response' = LexResponses[i]
          /\ keywords' = ResolveKeywords(QueryOf(api_event), LexResponses[i])
    /\ spc' = "resolved"
    /\ UNCHANGED <<search_endpoint, lex_bot_id, api_event, search_status, response,
                   idxVars, textVars>>

\* no keywords: the 200 answer with empty keywords and results
ReturnNoKeywords ==
    /\ spc = "resolved"
    /\ keywords = <<>>
    /\ response' = [statusCode |-> 200,
                    body |-> [query |-> user_query, keywords |-> <<>>, results |-> <<>>]]
    /\ spc' = "done"
    /\ UNCHANGED <<search_endpoint, lex_bot_id, api_event, user_query, lex_response,
                   keywords, search_status, idxVars, textVars>>

\* handle_api_search answers 200 with what search_photos_in_opensearch returned
Answer(status, search_results) ==
    /\ search_status' = status
    /\ response' = [statusCode |-> 200,
                    body |-> [query |-> user_query, keywords |-> keywords,
                              results |-> search_results]]
    /\ spc' = "done"
    /\ UNCHANGED <<search_endpoint, lex_bot_id, api_event, user_query, lex_response,
                   keywords, idxVars, textVars>>

\* search_photos_in_opensearch without an endpoint
SearchUnconfigured ==
    /\ spc = "resolved"
    /\ keywords # <<>>
    /\ ~search_endpoint
    /\ Answer("unconfigured", <<>>)

\* the request raises, or raise_for_status raises on its status
SearchFails ==
    /\ spc = "resolved"
    /\ keywords # <<>>
    /\ search_endpoint
    /\ \E status \in {"request_error", "http_error"} : Answer(status, <<>>)

\* the index answers with hits
SearchSucceeds ==
    /\ spc = "resolved"
    /\ keywords # <<>>
    /\ search_endpoint
    /\ \E hits \in HitLists : Answer("ok", ResultsOf(hits))

NextSearch ==
    \/ RejectMissingQuery
    \/ LexUnavailable
    \/ LexAnswers
    \/ ReturnNoKeywords
    \/ SearchUnconfigured
    \/ SearchFails
    \/ SearchSucceeds

SpecSearch == InitSearch /\ [][NextSearch]_vars

\* the response of the intent recognition has no usable structure: no
\* sessionState or intent, slots missing or null, or slots that give no keyword
NoUsableStructure(lex) ==
    \/ ~Has(lex, "sessionState")
    \/ ~Has(Get(lex, "sessionState"), "intent")
    \/ LET intent == Get(Get(lex, "sessionState"), "intent")
       IN  \/ ~Has(intent, "slots")
           \/ Get(intent, "slots").t = "null"
           \/ extract_keywords_from_slots(Get(intent, "slots")).keywords = <<>>

\* C6: when the intent recognition is unavailable or its response has no usable
\* structure, the keywords handle_api_search goes on with are
\* extract_keywords_from_text of the raw query.
C6_FallbackToRawQuery ==
    (spc \in {"resolved", "done"} /\ user_query # <<>>
     /\ (lex_response.t = "null" \/ NoUsableStructure(lex_response)))
        => keywords = extract_keywords_from_text(user_query)

\* C7: a failed search for a query with at least one keyword is answered with
\* empty results and an error message field.
C7_FailedSearchCarriesError ==
    (spc = "done" /\ keywords # <<>>
     /\ search_status \in {"unconfigured", "request_error", "http_error"})
        => /\ response.body.results = <<>>
           /\ "error" \in DOMAIN response.body

====
